---- MODULE Spec2Model ----
(***************************************************************************)
(* A model of iodata/utils.py (LineIterator, set_four_index_element,       *)
(* volume, derive_naturals, check_dm) and of the IOData container that     *)
(* iodata/test/test_iodata.py exercises.                                   *)
(*                                                                         *)
(* Each component has its own specification over its own variables; the    *)
(* variables of the other components stay at their idle values.            *)
(***************************************************************************)
EXTENDS Integers, Sequences, FiniteSets, TLC

VARIABLES
    lit,        \* LineIterator: [fh, pos, lineno, stack]
    file,       \* the lines of the file named by LineIterator.filename
    ret,        \* outcome of the last LineIterator call
    before,     \* LineIterator fields as they were when the last __next__ started
    nNext,      \* number of __next__ calls made so far
    nBack,      \* number of back calls made so far
    mol,        \* IOData container: [exists, attrs: attribute name -> shape or Absent]
    molRet,     \* outcome of the last container operation
    supplied,   \* attribute names stored in the container since its construction
    dm,         \* check_dm argument: density matrix
    overlap,    \* check_dm argument: overlap matrix
    eps,        \* check_dm argument
    occ_max,    \* check_dm argument
    dmRet,      \* outcome of the last derive_naturals / check_dm call
    cellvecs,   \* volume argument
    volRet,     \* outcome of the last volume call
    four,       \* four_index_object
    fourRet,    \* arguments of the last set_four_index_element call
    nCalls      \* number of set_four_index_element calls made so far

litVars  == <<lit, file, ret, before, nNext, nBack>>
molVars  == <<mol, molRet, supplied>>
dmVars   == <<dm, overlap, eps, occ_max, dmRet>>
volVars  == <<cellvecs, volRet>>
fourVars == <<four, fourRet, nCalls>>
vars     == <<litVars, molVars, dmVars, volVars, fourVars>>

Idle == "idle"

LitIdle ==
    /\ lit = Idle /\ file = Idle /\ ret = Idle /\ before = Idle
    /\ nNext = 0 /\ nBack = 0
MolIdle  == mol = Idle /\ molRet = Idle /\ supplied = {}
DmIdle   == dm = Idle /\ overlap = Idle /\ eps = 0 /\ occ_max = 0 /\ dmRet = Idle
VolIdle  == cellvecs = Idle /\ volRet = Idle
FourIdle == four = Idle /\ fourRet = Idle /\ nCalls = 0

(***************************************************************************)
(* LineIterator (utils.py 74-141)                                          *)
(***************************************************************************)

\* Longest file and largest number of __next__ plus back calls explored.
MaxFileLen == 3
MaxLitCalls == 5

Lines == {"a", "b"}

Files == UNION {[1..n -> Lines] : n \in 0..MaxFileLen}

None == "None"

\* __init__: fh = None, lineno = 0, stack = []. pos is the read position of
\* the handle in fh.
LitInit == [fh |-> None, pos |-> 0, lineno |-> 0, stack |-> <<>>]

NoRet == [op |-> "init", kind |-> None, line |-> None, src |-> None, fh |-> None]

Top(stack) == stack[Len(stack)]

\* __enter__: self.fh = open(self.filename), a handle at the start of the file.
LitEnter(self) == [self EXCEPT !.fh = "open", !.pos = 0]

\* __exit__: self.fh.close(); closing a closed handle is a no-op, and
\* without an __enter__ before it self.fh is None, which has no close
\* (AttributeError).
LitExit(self) ==
    IF self.fh = None
    THEN [self |-> self, kind |-> "AttributeError"]
    ELSE [self |-> [self EXCEPT !.fh = "closed"], kind |-> None]

\* Mutants of __next__.
\* lineno is increased only when a line is returned.
LitNextCountOnSuccess(self, f) ==
    IF self.stack # <<>>
    THEN [self |-> [self EXCEPT !.lineno = @ + 1,
                                !.stack = SubSeq(@, 1, Len(@) - 1)],
          kind |-> "line", line |-> self.stack[Len(self.stack)], src |-> "stack"]
    ELSE IF self.fh = None
    THEN [self |-> self, kind |-> "TypeError", line |-> None, src |-> None]
    ELSE IF self.fh = "closed"
    THEN [self |-> self, kind |-> "ValueError", line |-> None, src |-> None]
    ELSE IF self.pos < Len(f)
    THEN [self |-> [self EXCEPT !.lineno = @ + 1, !.pos = @ + 1],
          kind |-> "line", line |-> f[self.pos + 1], src |-> "file"]
    ELSE [self |-> self, kind |-> "StopIteration", line |-> None, src |-> None]

\* The file is read before the push-back stack is looked at.
LitNextFileFirst(self, f) ==
    LET s1 == [self EXCEPT !.lineno = @ + 1] IN
    IF self.fh = "open" /\ self.pos < Len(f)
    THEN [self |-> [s1 EXCEPT !.pos = @ + 1],
          kind |-> "line", line |-> f[self.pos + 1], src |-> "file"]
    ELSE IF self.stack # <<>>
    THEN [self |-> [s1 EXCEPT !.stack = SubSeq(@, 1, Len(@) - 1)],
          kind |-> "line", line |-> self.stack[Len(self.stack)], src |-> "stack"]
    ELSE [self |-> s1, kind |-> "StopIteration", line |-> None, src |-> None]

\* A closed handle is read like an open one.
LitNextReadsClosed(self, f) ==
    LET s1 == [self EXCEPT !.lineno = @ + 1] IN
    IF self.stack # <<>>
    THEN [self |-> [s1 EXCEPT !.stack = SubSeq(@, 1, Len(@) - 1)],
          kind |-> "line", line |-> self.stack[Len(self.stack)], src |-> "stack"]
    ELSE IF self.fh = None
    THEN [self |-> s1, kind |-> "TypeError", line |-> None, src |-> None]
    ELSE IF self.pos < Len(f)
    THEN [self |-> [s1 EXCEPT !.pos = @ + 1],
          kind |-> "line", line |-> f[self.pos + 1], src |-> "file"]
    ELSE [self |-> s1, kind |-> "StopIteration", line |-> None, src |-> None]

\* __next__: self.lineno += 1; return self.stack.pop() if self.stack else
\* next(self.fh). next(None) raises TypeError, next of a closed file raises
\* ValueError, next of an exhausted file raises StopIteration; lineno has
\* been increased by then.
LitNext(self, f) ==
    LET s1 == [self EXCEPT !.lineno = @ + 1] IN
    IF self.stack # <<>>
    THEN [self |-> [s1 EXCEPT !.stack = SubSeq(@, 1, Len(@) - 1)],
          kind |-> "line", line |-> self.stack[Len(self.stack)], src |-> "stack"]
    ELSE IF self.fh = None
    THEN [self |-> s1, kind |-> "TypeError", line |-> None, src |-> None]
    ELSE IF self.fh = "closed"
    THEN [self |-> s1, kind |-> "ValueError", line |-> None, src |-> None]
    ELSE IF self.pos < Len(f)
    THEN [self |-> [s1 EXCEPT !.pos = @ + 1],
          kind |-> "line", line |-> f[self.pos + 1], src |-> "file"]
    ELSE [self |-> s1, kind |-> "StopIteration", line |-> None, src |-> None]

\* Mutants of back.
\* The line is put at the bottom of the stack.
LitBackBottom(self, line) ==
    [self EXCEPT !.stack = <<line>> \o @, !.lineno = @ - 1]

\* lineno is decreased by two.
LitBackTwo(self, line) ==
    [self EXCEPT !.stack = Append(@, line), !.lineno = @ - 2]

\* back: self.stack.append(line); self.lineno -= 1.
LitBack(self, line) ==
    [self EXCEPT !.stack = Append(@, line), !.lineno = @ - 1]

\* error and warn read self.filename and self.lineno and write nothing; this
\* is the "<lineno>" part of the message.
LitMessage(self) == self.lineno

\* The lines that __next__ calls deliver from here on while the handle is
\* open: the stack from its top, then the unread lines of the file.
RECURSIVE Reverse(_)
Reverse(s) == IF s = <<>> THEN <<>> ELSE Reverse(Tail(s)) \o <<Head(s)>>

Stream(self, f) == Reverse(self.stack) \o SubSeq(f, self.pos + 1, Len(f))

InitLit ==
    /\ lit = LitInit
    /\ file \in Files
    /\ ret = NoRet
    /\ before = LitInit
    /\ nNext = 0 /\ nBack = 0
    /\ MolIdle /\ DmIdle /\ VolIdle /\ FourIdle

OthersOfLit == UNCHANGED <<molVars, dmVars, volVars, fourVars>>

Enter ==
    /\ lit' = LitEnter(lit)
    /\ ret' = [op |-> "enter", kind |-> None, line |-> None, src |-> None,
               fh |-> lit.fh]
    /\ UNCHANGED <<file, before, nNext, nBack>>
    /\ OthersOfLit

\* self.fh.close() raises AttributeError while fh is None.
Exit ==
    /\ LET r == LitExit(lit) IN
        /\ lit' = r.self
        /\ ret' = [op |-> "exit", kind |-> r.kind, line |-> None, src |-> None,
                   fh |-> lit.fh]
    /\ UNCHANGED <<file, before, nNext, nBack>>
    /\ OthersOfLit

Next_ ==
    /\ nNext + nBack < MaxLitCalls
    /\ LET r == LitNext(lit, file) IN
        /\ lit' = r.self
        /\ ret' = [op |-> "next", kind |-> r.kind, line |-> r.line,
                   src |-> r.src, fh |-> lit.fh]
    /\ before' = lit
    /\ nNext' = nNext + 1
    /\ UNCHANGED <<file, nBack>>
    /\ OthersOfLit

\* Any line may be pushed back. ret.src tells whether the line pushed back is the one the call just
\* before returned.
Back ==
    /\ nNext + nBack < MaxLitCalls
    /\ \E line \in Lines :
        /\ lit' = LitBack(lit, line)
        /\ ret' = [op |-> "back", kind |-> None, line |-> line,
                   src |-> IF ret.op = "next" /\ ret.kind = "line" /\ ret.line = line
                           THEN "unread" ELSE "other",
                   fh |-> lit.fh]
    /\ nBack' = nBack + 1
    /\ UNCHANGED <<file, before, nNext>>
    /\ OthersOfLit

Error ==
    /\ ret' = [op |-> "error", kind |-> "FileFormatError", line |-> None,
               src |-> LitMessage(lit), fh |-> lit.fh]
    /\ UNCHANGED <<lit, file, before, nNext, nBack>>
    /\ OthersOfLit

Warn ==
    /\ ret' = [op |-> "warn", kind |-> "FileFormatWarning", line |-> None,
               src |-> LitMessage(lit), fh |-> lit.fh]
    /\ UNCHANGED <<lit, file, before, nNext, nBack>>
    /\ OthersOfLit

NextLit == Enter \/ Exit \/ Next_ \/ Back \/ Error \/ Warn

Spec == InitLit /\ [][NextLit]_vars

(***************************************************************************)
(* Claims about LineIterator, checked under Spec                           *)
(***************************************************************************)

\* C1: a __next__ made while the handle is open returns and removes the top
\* of the push-back stack without reading the file when the stack is not
\* empty, otherwise returns the next line of the file, otherwise (stack
\* empty, file exhausted) raises StopIteration; lineno has grown by exactly
\* one in every case.
C1_Next ==
    (ret.op = "next" /\ ret.fh = "open") =>
        /\ lit.lineno = before.lineno + 1
        /\ IF before.stack # <<>>
           THEN /\ ret.kind = "line" /\ ret.line = Top(before.stack)
                /\ lit.stack = SubSeq(before.stack, 1, Len(before.stack) - 1)
                /\ lit.pos = before.pos
           ELSE IF before.pos < Len(file)
           THEN /\ ret.kind = "line" /\ ret.line = file[before.pos + 1]
                /\ lit.pos = before.pos + 1 /\ lit.stack = <<>>
           ELSE /\ ret.kind = "StopIteration"
                /\ lit.pos = before.pos /\ lit.stack = <<>>

\* A __next__ on an open handle returned the stack's top while the file
\* still had unread lines.
C1_Witness ==
    /\ ret.op = "next" /\ ret.fh = "open" /\ ret.src = "stack"
    /\ before.pos < Len(file)

\* C2: line = next(); back(line) on an open cursor restores lineno and the
\* stream of lines later __next__ calls deliver, so the following __next__
\* returns that line again; lines pushed back one after the other come out
\* of the following __next__ calls last pushed first, and no line of the
\* file is read meanwhile.
C2_RoundTrip ==
    /\ (ret.op = "back" /\ ret.src = "unread" /\ ret.fh = "open") =>
          /\ lit.lineno = before.lineno
          /\ Stream(lit, file) = Stream(before, file)
          /\ LitNext(lit, file).kind = "line"
          /\ LitNext(lit, file).line = ret.line
    /\ lit.fh = "open" =>
          \A x, y \in Lines :
              LET b  == LitBack(LitBack(lit, x), y)
                  n1 == LitNext(b, file)
                  n2 == LitNext(n1.self, file)
              IN  /\ n1.kind = "line" /\ n1.line = y
                  /\ n2.kind = "line" /\ n2.line = x
                  /\ n2.self = lit

\* A line read from the file was pushed back at once, onto a stack that was
\* empty, with another line still unread behind it.
C2_Witness ==
    /\ ret.op = "back" /\ ret.src = "unread" /\ ret.fh = "open"
    /\ before.stack = <<>> /\ before.pos + 1 < Len(file)

\* C3 as stated: lineno never decreases, whatever is called.
C3_NeverDecreases == [][lit'.lineno >= lit.lineno]_vars

\* C3 as amended: lineno starts at 0; __next__ increases it by one, error
\* and warn leave it as it is, so it never decreases over these calls; every
\* back decreases it by exactly one.
C3_Amended ==
    /\ lit.lineno = 0
    /\ [][/\ ret'.op = "next" => lit'.lineno = lit.lineno + 1
          /\ ret'.op \in {"error", "warn"} => lit'.lineno = lit.lineno
          /\ ret'.op = "back" => lit'.lineno = lit.lineno - 1]_vars

\* back has been called more often than __next__: lineno is negative.
C3_Witness == ret.op = "back" /\ lit.lineno < 0

\* C4 as stated: no __next__ on a closed handle returns a line, neither one
\* that was made nor the one that would be made right after __exit__,
\* whatever was called before __exit__.
C4_ClosedNeverReturns ==
    /\ (ret.op = "next" /\ ret.fh = "closed") => ret.kind # "line"
    /\ (ret.op = "exit" /\ ret.kind = None) => LitNext(lit, file).kind # "line"

\* C4 as amended: __exit__ leaves the handle closed; a __next__ made on a
\* closed handle never reads the file; it fails (ValueError) when the
\* push-back stack is empty and returns and removes the stack's top when it
\* is not.
C4_Amended ==
    /\ (ret.op = "exit" /\ ret.kind = None) => lit.fh = "closed"
    /\ (ret.op = "next" /\ ret.fh = "closed") =>
          /\ lit.pos = before.pos
          /\ lit.fh = "closed"
          /\ IF before.stack = <<>>
             THEN ret.kind = "ValueError"
             ELSE /\ ret.kind = "line" /\ ret.src = "stack"
                  /\ ret.line = Top(before.stack)
                  /\ lit.stack = SubSeq(before.stack, 1, Len(before.stack) - 1)

\* A __next__ on a closed handle failed although the file had unread lines.
C4_Witness ==
    /\ ret.op = "next" /\ ret.fh = "closed" /\ ret.kind = "ValueError"
    /\ before.pos < Len(file)

\* C10: lineno is the number of __next__ calls made, the failed ones
\* included, minus the number of back calls made; a __next__ that ends in
\* StopIteration has increased lineno; error and warn change neither lineno
\* nor the push-back stack.
C10_Bookkeeping ==
    /\ [](lit.lineno = nNext - nBack)
    /\ []((ret.op = "next" /\ ret.kind # "line") => lit.lineno = before.lineno + 1)
    /\ [][ret'.op \in {"error", "warn"} =>
            (lit'.lineno = lit.lineno /\ lit'.stack = lit.stack)]_vars

\* A __next__ ended in StopIteration in a run in which back had been called.
C10_Witness ==
    /\ ret.op = "next" /\ ret.kind = "StopIteration"
    /\ nBack > 0 /\ lit.lineno = nNext - nBack

(***************************************************************************)
(* The IOData container. Its module is not among the sources; what is      *)
(* modelled here follows the specification (sections 3, 4.1, 6, 7 and 8)   *)
(* and agrees with test_typecheck and test_typecheck_raises. An array is   *)
(* modelled by its shape and the kind of its elements.                     *)
(***************************************************************************)

\* Largest number of atoms of an array supplied to the container.
MaxAtoms == 2

\* An array: its shape, and whether its elements are integers ("int"),
\* floats with integral values ("whole") or floats with a fractional part
\* ("fraction").
Array(shape, dtype) == [shape |-> shape, dtype |-> dtype]

\* No array: the attribute is not set.
Absent == Array(<<>>, "none")

\* The attributes whose contracts the data model states.
AttrNames == {"numbers", "pseudo_numbers", "coordinates", "cube_data", "origin", "axes"}

\* A name that is no attribute of the container.
Unrecognized == "unrecognized"

KwNames == AttrNames \cup {Unrecognized}

\* The arrays supplied: well-shaped ones for 1..MaxAtoms atoms, and one of a
\* wrong rank or shape per attribute (those of test_typecheck_raises), with
\* the element kinds of test_typecheck and a fractional one for numbers.
AttrInputs(k) ==
    CASE k = "numbers" ->
            {Array(s, d) : s \in {<<n>> : n \in 1..MaxAtoms} \cup {<<2, 2>>},
                           d \in {"int", "whole", "fraction"}}
      [] k = "pseudo_numbers" ->
            {Array(s, d) : s \in {<<n>> : n \in 1..MaxAtoms} \cup {<<2, 2>>},
                           d \in {"int", "fraction"}}
      [] k = "coordinates" ->
            {Array(s, d) : s \in {<<n, 3>> : n \in 1..MaxAtoms} \cup {<<2, 2>>},
                           d \in {"int", "fraction"}}
      [] k = "cube_data" ->
            {Array(s, "fraction") : s \in {<<2>>, <<3, 2>>, <<2, 2, 2>>}}
      [] k = "origin" -> {Array(s, "fraction") : s \in {<<3>>, <<2>>}}
      [] k = "axes" -> {Array(s, "fraction") : s \in {<<3, 3>>, <<2, 3>>}}
      [] k = Unrecognized -> {Array(<<1>>, "int")}

\* The keyword arguments of a construction: for every name an array or none.
KwArgs ==
    [numbers        : AttrInputs("numbers") \cup {Absent},
     pseudo_numbers : AttrInputs("pseudo_numbers") \cup {Absent},
     coordinates    : AttrInputs("coordinates") \cup {Absent},
     cube_data      : AttrInputs("cube_data") \cup {Absent},
     origin         : AttrInputs("origin") \cup {Absent},
     axes           : AttrInputs("axes") \cup {Absent},
     unrecognized   : AttrInputs(Unrecognized) \cup {Absent}]

\* The presence check (hasattr).
Has(m, k) == m[k] # Absent

\* The shape contract of one attribute (section 3): numbers and
\* pseudo_numbers are (n_atom,), coordinates is (n_atom, 3), cube_data has
\* rank 3, origin is (3,), axes is (3, 3).
ShapeOk(k, shape) ==
    CASE k = "numbers"        -> Len(shape) = 1
      [] k = "pseudo_numbers" -> Len(shape) = 1
      [] k = "coordinates"    -> Len(shape) = 2 /\ shape[2] = 3
      [] k = "cube_data"      -> Len(shape) = 3
      [] k = "origin"         -> shape = <<3>>
      [] k = "axes"           -> shape = <<3, 3>>

\* The element-type contract (sections 3 and 8): numbers is integer-valued,
\* floats are accepted when integral and rejected otherwise; the other
\* attributes are real-valued and accept integers.
DtypeOk(k, dtype) == k = "numbers" => dtype \in {"int", "whole"}

\* The documented casts: numbers is stored as integers, the other attributes
\* as floats (an integer array becomes a float array of integral values).
Stored(k, a) ==
    IF k = "numbers" THEN Array(a.shape, "int")
    ELSE Array(a.shape, IF a.dtype = "int" THEN "whole" ELSE a.dtype)

\* The atom counts the per-atom attributes present in m give.
AtomCounts(m) ==
    {m[k].shape[1] :
        k \in {k \in {"numbers", "pseudo_numbers", "coordinates"} : Has(m, k)}}

\* The mismatch of pseudo_numbers and coordinates goes unnoticed.
ValidateNoPseudoCoordinates(m) ==
    /\ \A k \in AttrNames : Has(m, k) => ShapeOk(k, m[k].shape) /\ DtypeOk(k, m[k].dtype)
    /\ (Has(m, "numbers") /\ Has(m, "pseudo_numbers")) =>
            m["numbers"].shape[1] = m["pseudo_numbers"].shape[1]
    /\ (Has(m, "numbers") /\ Has(m, "coordinates")) =>
            m["numbers"].shape[1] = m["coordinates"].shape[1]
    /\ ~(Has(m, "cube_data") /\ Has(m, "coordinates"))

\* All attributes validated together (sections 3 and 4.1): every attribute
\* present meets its shape and element-type contract, the per-atom
\* attributes agree on the number of atoms, and cube_data does not come with
\* coordinates.
Validate(m) ==
    /\ \A k \in AttrNames : Has(m, k) => ShapeOk(k, m[k].shape) /\ DtypeOk(k, m[k].dtype)
    /\ Cardinality(AtomCounts(m)) <= 1
    /\ ~(Has(m, "cube_data") /\ Has(m, "coordinates"))

NoAttrs == [k \in AttrNames |-> Absent]

NoKw == [k \in KwNames |-> Absent]

\* No container: none was constructed yet.
NoMol == [exists |-> FALSE, attrs |-> NoAttrs]

\* Construction (sections 4.1 and 6): the container holding the attributes
\* of kw as stored, or TypeError and no container; a name that is no
\* attribute fails.
MolConstruct(kw) ==
    LET m == [k \in AttrNames |-> kw[k]] IN
    IF ~Has(kw, Unrecognized) /\ Validate(m)
    THEN [mol |-> [exists |-> TRUE,
                   attrs |-> [k \in AttrNames |->
                                 IF Has(m, k) THEN Stored(k, m[k]) ELSE Absent]],
          kind |-> "ok"]
    ELSE [mol |-> NoMol, kind |-> "TypeError"]

\* The value is stored before it is validated.
MolSetStoresFirst(m, k, v) ==
    LET c == [m EXCEPT ![k] = v] IN
    IF Validate(c) THEN [mol |-> [m EXCEPT ![k] = Stored(k, v)], kind |-> "ok"]
                   ELSE [mol |-> [m EXCEPT ![k] = Stored(k, v)], kind |-> "TypeError"]

\* Setting one attribute: validated against its contract and the attributes
\* it must agree with; on failure nothing is stored.
MolSet(m, k, v) ==
    LET c == [m EXCEPT ![k] = v] IN
    IF Validate(c) THEN [mol |-> [m EXCEPT ![k] = Stored(k, v)], kind |-> "ok"]
                   ELSE [mol |-> m, kind |-> "TypeError"]

\* Unsetting one attribute: always permitted.
MolUnset(m, k) == [mol |-> [m EXCEPT ![k] = Absent], kind |-> "ok"]

InitMol ==
    /\ mol = NoMol
    /\ molRet = [op |-> "none", kind |-> None, kw |-> NoKw, key |-> None, val |-> Absent]
    /\ supplied = {}
    /\ LitIdle /\ DmIdle /\ VolIdle /\ FourIdle

OthersOfMol == UNCHANGED <<litVars, dmVars, volVars, fourVars>>

\* A container is constructed once; a construction that failed leaves no
\* container to operate on.
Construct ==
    /\ ~mol.exists /\ molRet.op = "none"
    /\ \E kw \in KwArgs :
        LET r == MolConstruct(kw) IN
        /\ mol' = r.mol
        /\ molRet' = [op |-> "construct", kind |-> r.kind, kw |-> kw,
                      key |-> None, val |-> Absent]
        /\ supplied' = IF r.kind = "ok" THEN {k \in AttrNames : Has(kw, k)} ELSE {}
    /\ OthersOfMol

SetAttr ==
    /\ mol.exists
    /\ \E k \in AttrNames : \E v \in AttrInputs(k) :
        LET r == MolSet(mol.attrs, k, v) IN
        /\ mol' = [mol EXCEPT !.attrs = r.mol]
        /\ molRet' = [op |-> "set", kind |-> r.kind, kw |-> NoKw, key |-> k, val |-> v]
        /\ supplied' = IF r.kind = "ok" THEN supplied \cup {k} ELSE supplied
    /\ OthersOfMol

UnsetAttr ==
    /\ mol.exists
    /\ \E k \in AttrNames :
        LET r == MolUnset(mol.attrs, k) IN
        /\ mol' = [mol EXCEPT !.attrs = r.mol]
        /\ molRet' = [op |-> "unset", kind |-> r.kind, kw |-> NoKw, key |-> k,
                      val |-> Absent]
    /\ UNCHANGED supplied
    /\ OthersOfMol

NextMol == Construct \/ SetAttr \/ UnsetAttr

SpecMol == InitMol /\ [][NextMol]_vars

(***************************************************************************)
(* Claims about the container, checked under SpecMol                       *)
(***************************************************************************)

\* The failure conditions C5 lists.
C5_Listed(kw) ==
    \/ Has(kw, "numbers") /\ Has(kw, "pseudo_numbers")
          /\ kw["numbers"].shape[1] # kw["pseudo_numbers"].shape[1]
    \/ Has(kw, "numbers") /\ Has(kw, "coordinates")
          /\ kw["numbers"].shape[1] # kw["coordinates"].shape[1]
    \/ Has(kw, "coordinates")
          /\ ~(Len(kw["coordinates"].shape) = 2 /\ kw["coordinates"].shape[2] = 3)
    \/ Has(kw, "numbers") /\ Len(kw["numbers"].shape) # 1
    \/ Has(kw, "cube_data") /\ Len(kw["cube_data"].shape) # 3
    \/ Has(kw, "cube_data") /\ Has(kw, "coordinates")

\* The failure conditions of the data model that C5 does not list.
C5_Unlisted(kw) ==
    \/ Has(kw, "pseudo_numbers") /\ Len(kw["pseudo_numbers"].shape) # 1
    \/ Has(kw, "pseudo_numbers") /\ Has(kw, "coordinates")
          /\ kw["pseudo_numbers"].shape[1] # kw["coordinates"].shape[1]
    \/ Has(kw, "numbers") /\ kw["numbers"].dtype = "fraction"
    \/ Has(kw, "origin") /\ kw["origin"].shape # <<3>>
    \/ Has(kw, "axes") /\ kw["axes"].shape # <<3, 3>>
    \/ Has(kw, Unrecognized)

\* What a container constructed from kw holds: each attribute supplied, of
\* the shape given, numbers as integers and the others as floats.
C5_Holds(m, kw) ==
    \A k \in AttrNames :
        /\ Has(m, k) <=> Has(kw, k)
        /\ Has(m, k) =>
              /\ m[k].shape = kw[k].shape
              /\ m[k].dtype = IF k = "numbers" THEN "int"
                              ELSE IF kw[k].dtype = "fraction" THEN "fraction"
                              ELSE "whole"

\* C5 as stated: construction fails with TypeError, producing no container,
\* whenever one of the listed conditions holds, and succeeds for every other
\* set of attributes (every keyword being the name of an attribute).
C5_FailsIffListed ==
    (molRet.op = "construct" /\ ~Has(molRet.kw, Unrecognized)) =>
        /\ molRet.kind = "TypeError" <=> C5_Listed(molRet.kw)
        /\ molRet.kind = "TypeError" => ~mol.exists
        /\ molRet.kind = "ok" => (mol.exists /\ C5_Holds(mol.attrs, molRet.kw))

\* C5 as amended: construction fails with TypeError and produces no
\* container whenever a listed condition holds, and also whenever
\* pseudo_numbers is not of rank 1, pseudo_numbers and coordinates differ in
\* atom count, numbers has non-integral elements, origin is not (3,), axes
\* is not (3, 3) or a name that is no attribute is supplied; every other set
\* of attributes constructs a container holding them.
C5_Amended ==
    molRet.op = "construct" =>
        /\ molRet.kind = "TypeError" <=>
              (C5_Listed(molRet.kw) \/ C5_Unlisted(molRet.kw))
        /\ molRet.kind = "TypeError" => ~mol.exists
        /\ molRet.kind = "ok" => (mol.exists /\ C5_Holds(mol.attrs, molRet.kw))

\* A construction failed on numbers with non-integral elements alone, which
\* none of the listed conditions rejects.
C5_Witness ==
    /\ molRet.op = "construct" /\ molRet.kind = "TypeError" /\ ~mol.exists
    /\ ~C5_Listed(molRet.kw)
    /\ Has(molRet.kw, "numbers") /\ molRet.kw["numbers"].dtype = "fraction"
    /\ \A k \in KwNames \ {"numbers"} : ~Has(molRet.kw, k)

\* C6: an attribute never stored is absent; unsetting always succeeds and
\* makes the attribute absent, leaving the others alone, and it stays absent
\* until a set succeeds; a set that succeeds makes the attribute present with
\* the value given, numbers as integers and the others as floats; a set
\* that fails changes no attribute.
C6_Presence ==
    /\ [](\A k \in AttrNames \ supplied : ~Has(mol.attrs, k))
    /\ [][molRet'.op = "unset" =>
            /\ molRet'.kind = "ok"
            /\ ~Has(mol'.attrs, molRet'.key)
            /\ \A k \in AttrNames \ {molRet'.key} : mol'.attrs[k] = mol.attrs[k]]_vars
    /\ [][(molRet'.op = "set" /\ molRet'.kind = "ok") =>
            /\ Has(mol'.attrs, molRet'.key)
            /\ mol'.attrs[molRet'.key].shape = molRet'.val.shape
            /\ mol'.attrs[molRet'.key].dtype =
                    IF molRet'.key = "numbers" THEN "int"
                    ELSE IF molRet'.val.dtype = "fraction" THEN "fraction"
                    ELSE "whole"
            /\ \A k \in AttrNames \ {molRet'.key} : mol'.attrs[k] = mol.attrs[k]]_vars
    /\ [][(molRet'.op = "set" /\ molRet'.kind = "TypeError") => mol' = mol]_vars
    /\ [][mol.exists =>
            \A k \in AttrNames : (~Has(mol.attrs, k) /\ Has(mol'.attrs, k)) =>
                molRet'.op = "set" /\ molRet'.kind = "ok" /\ molRet'.key = k]_vars

\* A set of coordinates failed on a container that holds numbers and no
\* coordinates.
C6_Witness ==
    /\ mol.exists
    /\ molRet.op = "set" /\ molRet.kind = "TypeError"
    /\ Has(mol.attrs, "numbers") /\ ~Has(mol.attrs, "coordinates")
    /\ molRet.key = "coordinates"

(***************************************************************************)
(* derive_naturals and check_dm (utils.py 220-287)                         *)
(*                                                                         *)
(* Matrices are tuples of rows. The inputs are diagonal matrices with a    *)
(* positive overlap, for which the generalized eigenvalues are rational:   *)
(* dm, eps and occ_max are whole multiples of one unit, overlap is made of *)
(* plain integers.                                                         *)
(***************************************************************************)

\* Dimension of the density and overlap matrices.
DmBasis == 2

DmEntries == -2..3
OverlapEntries == 1..2
EpsValues == 0..1
OccMaxValues == 1..2

Diag(d) == [i \in 1..Len(d) |-> [j \in 1..Len(d) |-> IF i = j THEN d[i] ELSE 0]]

DiagMatrices(entries) == {Diag(d) : d \in [1..DmBasis -> entries]}

RECURSIVE SumTo(_, _)
SumTo(f, n) == IF n = 0 THEN 0 ELSE f[n] + SumTo(f, n - 1)

\* overlap.T
Transpose(a) == [i \in 1..Len(a) |-> [j \in 1..Len(a) |-> a[j][i]]]

\* np.dot of two square matrices
Dot(a, b) ==
    [i \in 1..Len(a) |-> [j \in 1..Len(a) |->
        SumTo([k \in 1..Len(a) |-> a[i][k] * b[k][j]], Len(a))]]

\* The values of s in ascending order.
RECURSIVE SortAsc(_)
SortAsc(s) ==
    IF s = <<>> THEN <<>>
    ELSE LET i == CHOOSE i \in 1..Len(s) : \A j \in 1..Len(s) : s[i] <= s[j]
         IN  <<s[i]>> \o SortAsc([k \in 1..Len(s) - 1 |-> IF k < i THEN s[k] ELSE s[k + 1]])

\* eigh(a, b) for diagonal a and diagonal positive b: the eigenvalues
\* a[i][i] / b[i][i], ascending.
EighValues(a, b) == SortAsc([i \in 1..Len(a) |-> a[i][i] \div b[i][i]])

\* derive_naturals: sds = overlap.T . dm . overlap; evals, evecs =
\* eigh(sds, overlap); occs = evals. Only the occupations are modelled.
derive_naturals(dm_, overlap_) ==
    LET sds == Dot(Transpose(overlap_), Dot(dm_, overlap_))
    IN  [occs |-> EighValues(sds, overlap_)]

SeqMin(s) == CHOOSE x \in {s[i] : i \in 1..Len(s)} : \A i \in 1..Len(s) : x <= s[i]
SeqMax(s) == CHOOSE x \in {s[i] : i \in 1..Len(s)} : \A i \in 1..Len(s) : x >= s[i]

\* The bounds themselves are rejected.
check_dm_nonstrict(dm_, overlap_, eps_, occ_max_) ==
    LET occupations == derive_naturals(dm_, overlap_).occs IN
    IF SeqMin(occupations) <= -eps_ THEN "ValueError"
    ELSE IF SeqMax(occupations) >= occ_max_ + eps_ THEN "ValueError"
    ELSE None

\* check_dm: ValueError if occupations.min() < -eps, ValueError if
\* occupations.max() > occ_max + eps, else falls off the end (None).
check_dm(dm_, overlap_, eps_, occ_max_) ==
    LET occupations == derive_naturals(dm_, overlap_).occs IN
    IF SeqMin(occupations) < -eps_ THEN "ValueError"
    ELSE IF SeqMax(occupations) > occ_max_ + eps_ THEN "ValueError"
    ELSE None

InitDm ==
    /\ dm \in DiagMatrices(DmEntries)
    /\ overlap \in DiagMatrices(OverlapEntries)
    /\ eps \in EpsValues
    /\ occ_max \in OccMaxValues
    /\ dmRet = [op |-> "none", kind |-> None, occs |-> <<>>]
    /\ LitIdle /\ MolIdle /\ VolIdle /\ FourIdle

OthersOfDm == UNCHANGED <<litVars, molVars, volVars, fourVars>>

DeriveNaturals ==
    /\ dmRet' = [op |-> "derive_naturals", kind |-> "tuple",
                 occs |-> derive_naturals(dm, overlap).occs]
    /\ UNCHANGED <<dm, overlap, eps, occ_max>>
    /\ OthersOfDm

CheckDm ==
    /\ dmRet' = [op |-> "check_dm", kind |-> check_dm(dm, overlap, eps, occ_max),
                 occs |-> <<>>]
    /\ UNCHANGED <<dm, overlap, eps, occ_max>>
    /\ OthersOfDm

NextDm == DeriveNaturals \/ CheckDm

SpecDm == InitDm /\ [][NextDm]_vars

\* C7: check_dm raises ValueError exactly when some natural occupation
\* (overlap[i][i] * dm[i][i] for these matrices) is below -eps or above
\* occ_max + eps; otherwise, also with an occupation equal to -eps or to
\* occ_max + eps, it returns None; dm and overlap are left as they were.
C7_CheckDm ==
    /\ [](dmRet.op = "check_dm" =>
            /\ dmRet.kind = "ValueError" <=>
                  \E i \in 1..DmBasis :
                      \/ overlap[i][i] * dm[i][i] < -eps
                      \/ overlap[i][i] * dm[i][i] > occ_max + eps
            /\ dmRet.kind # "ValueError" => dmRet.kind = None)
    /\ [][dm' = dm /\ overlap' = overlap]_vars

\* check_dm returned normally with the smallest occupation equal to -eps and
\* the largest equal to occ_max + eps.
C7_Witness ==
    /\ dmRet.op = "check_dm" /\ dmRet.kind = None /\ eps > 0
    /\ \E i \in 1..DmBasis : overlap[i][i] * dm[i][i] = -eps
    /\ \E i \in 1..DmBasis : overlap[i][i] * dm[i][i] = occ_max + eps

(***************************************************************************)
(* volume (utils.py 194-217)                                               *)
(*                                                                         *)
(* cellvecs is [rank, data]: a rank-1 array is the tuple of its entries, a *)
(* rank-2 array of shape (x, 3) the tuple of its rows. A result is exact:  *)
(* [kind |-> "sqrt", of |-> n] is the square root of n.                    *)
(***************************************************************************)

\* Largest number of rows (rank 2) or entries (rank 1) of cellvecs.
MaxVecs == 4

CellVectors == {<<1, 0, 0>>, <<0, 2, 0>>, <<1, 1, 1>>, <<0, -1, 3>>}
CellEntries == {-1, 2}

CellInputs ==
    {[rank |-> 2, data |-> d] : d \in UNION {[1..n -> CellVectors] : n \in 0..MaxVecs}}
    \cup
    {[rank |-> 1, data |-> d] : d \in UNION {[1..n -> CellEntries] : n \in 0..MaxVecs}}

\* The sum of the squares of all entries: the square of np.linalg.norm.
NormSquared(c) ==
    IF c.rank = 1
    THEN SumTo([i \in 1..Len(c.data) |-> c.data[i] * c.data[i]], Len(c.data))
    ELSE SumTo([i \in 1..Len(c.data) |->
                  SumTo([j \in 1..3 |-> c.data[i][j] * c.data[i][j]], 3)], Len(c.data))

\* np.cross of two 3-vectors
Cross(a, b) ==
    <<a[2] * b[3] - a[3] * b[2], a[3] * b[1] - a[1] * b[3], a[1] * b[2] - a[2] * b[1]>>

\* np.linalg.det of a 3x3 matrix, by expansion along the first row
Det(m) ==
    m[1][1] * (m[2][2] * m[3][3] - m[2][3] * m[3][2])
    - m[1][2] * (m[2][1] * m[3][3] - m[2][3] * m[3][1])
    + m[1][3] * (m[2][1] * m[3][2] - m[2][2] * m[3][1])

\* An empty array is taken for a single vector.
volume_empty_as_one(c) ==
    LET nvecs == Len(c.data) IN
    IF c.rank = 1 \/ nvecs <= 1
    THEN [kind |-> "sqrt", of |-> NormSquared(c)]
    ELSE IF nvecs = 2
    THEN [kind |-> "sqrt",
          of |-> NormSquared([rank |-> 1, data |-> Cross(c.data[1], c.data[2])])]
    ELSE IF nvecs = 3
    THEN [kind |-> "int", of |-> Det(c.data)]
    ELSE [kind |-> "ValueError", of |-> 0]

\* volume: nvecs = cellvecs.shape[0]; the norm if cellvecs has rank 1 or one
\* row, the norm of the cross product for two rows, the determinant for
\* three, else ValueError.
volume(c) ==
    LET nvecs == Len(c.data) IN
    IF c.rank = 1 \/ nvecs = 1
    THEN [kind |-> "sqrt", of |-> NormSquared(c)]
    ELSE IF nvecs = 2
    THEN [kind |-> "sqrt",
          of |-> NormSquared([rank |-> 1, data |-> Cross(c.data[1], c.data[2])])]
    ELSE IF nvecs = 3
    THEN [kind |-> "int", of |-> Det(c.data)]
    ELSE [kind |-> "ValueError", of |-> 0]

InitVol ==
    /\ cellvecs \in CellInputs
    /\ volRet = [op |-> "none", kind |-> None, of |-> 0]
    /\ LitIdle /\ MolIdle /\ DmIdle /\ FourIdle

OthersOfVol == UNCHANGED <<litVars, molVars, dmVars, fourVars>>

Volume ==
    /\ LET r == volume(cellvecs) IN
        volRet' = [op |-> "volume", kind |-> r.kind, of |-> r.of]
    /\ UNCHANGED cellvecs
    /\ OthersOfVol

NextVol == Volume

SpecVol == InitVol /\ [][NextVol]_vars

Dot3(a, b) == a[1] * b[1] + a[2] * b[2] + a[3] * b[3]

\* C8: of an (x, 3) array, or of one vector given as a rank-1 array, volume
\* returns the Euclidean norm of the one vector, the norm of the cross
\* product of two vectors (|a|^2 |b|^2 - (a.b)^2 under the root), the
\* determinant of three vectors (a . (b x c)), and raises ValueError for
\* zero rows and for more than three rows.
C8_Volume ==
    volRet.op = "volume" =>
        LET d == cellvecs.data
            n == Len(d)
        IN  IF cellvecs.rank = 1
            THEN volRet.kind = "sqrt"
                 /\ volRet.of = SumTo([i \in 1..n |-> d[i] * d[i]], n)
            ELSE CASE n = 1 -> volRet.kind = "sqrt" /\ volRet.of = Dot3(d[1], d[1])
                   [] n = 2 -> /\ volRet.kind = "sqrt"
                               /\ volRet.of = Dot3(d[1], d[1]) * Dot3(d[2], d[2])
                                              - Dot3(d[1], d[2]) * Dot3(d[1], d[2])
                   [] n = 3 -> /\ volRet.kind = "int"
                               /\ volRet.of = Dot3(d[1], Cross(d[2], d[3]))
                   [] OTHER -> volRet.kind = "ValueError"

\* volume raised ValueError for an array of zero rows.
C8_Witness ==
    /\ volRet.op = "volume" /\ volRet.kind = "ValueError"
    /\ cellvecs.rank = 2 /\ Len(cellvecs.data) = 0

(***************************************************************************)
(* set_four_index_element (utils.py 166-191)                               *)
(***************************************************************************)

\* Largest number of basis functions; an array of nbasis basis functions
\* takes calls while nbasis + nCalls < MaxFourSize.
NBasis == 3
MaxFourSize == 5

Index(n) == 0..(n - 1)
Index4(n) == Index(n) \X Index(n) \X Index(n) \X Index(n)

\* The basis size of an array, from its shape.
RECURSIVE BasisOf(_, _)
BasisOf(obj, n) == IF <<n, n, n, n>> \in DOMAIN obj THEN BasisOf(obj, n + 1) ELSE n

\* The value call number n stores: one the array does not hold yet, so that
\* every element written shows.
FourValues(n) == {-n}

\* The arrays the calls start from, of 2..NBasis basis functions: all zero,
\* and one with the eight-fold symmetry and no more,
\* obj[a,b,c,d] = a*c + b*d.
SymmetricArrays ==
    UNION {{[t \in Index4(n) |-> 0],
            [t \in Index4(n) |-> t[1] * t[3] + t[2] * t[4]]} : n \in 2..NBasis}

\* The eight assignments, in the order of the source.
Targets(i0, i1, i2, i3) ==
    << <<i0, i1, i2, i3>>, <<i1, i0, i3, i2>>, <<i2, i1, i0, i3>>, <<i0, i3, i2, i1>>,
       <<i2, i3, i0, i1>>, <<i3, i2, i1, i0>>, <<i1, i2, i3, i0>>, <<i3, i0, i1, i2>> >>

RECURSIVE Assign(_, _, _, _)
Assign(obj, targets, n, value) ==
    IF n > Len(targets) THEN obj
    ELSE Assign([obj EXCEPT ![targets[n]] = value], targets, n + 1, value)

\* The last assignment has two indices swapped.
set_four_index_element_swapped(obj, i0, i1, i2, i3, value) ==
    Assign(obj, [Targets(i0, i1, i2, i3) EXCEPT ![8] = <<i3, i0, i2, i1>>], 1, value)

\* set_four_index_element: eight assignments of value.
set_four_index_element(obj, i0, i1, i2, i3, value) ==
    Assign(obj, Targets(i0, i1, i2, i3), 1, value)

InitFour ==
    /\ four \in SymmetricArrays
    /\ fourRet = [op |-> "none", args |-> <<0, 0, 0, 0>>, value |-> 0]
    /\ nCalls = 0
    /\ LitIdle /\ MolIdle /\ DmIdle /\ VolIdle

OthersOfFour == UNCHANGED <<litVars, molVars, dmVars, volVars>>

SetFourIndexElement ==
    /\ BasisOf(four, 0) + nCalls < MaxFourSize
    /\ \E i0, i1, i2, i3 \in Index(BasisOf(four, 0)) :
       \E value \in FourValues(nCalls + 1) :
        /\ four' = set_four_index_element(four, i0, i1, i2, i3, value)
        /\ fourRet' = [op |-> "set", args |-> <<i0, i1, i2, i3>>, value |-> value]
    /\ nCalls' = nCalls + 1
    /\ OthersOfFour

NextFour == SetFourIndexElement

SpecFour == InitFour /\ [][NextFour]_vars

\* The images of (a, b, c, d) under the eight index permutations C9 names.
Images(t) ==
    {<<t[1], t[2], t[3], t[4]>>, <<t[2], t[1], t[4], t[3]>>,
     <<t[3], t[2], t[1], t[4]>>, <<t[1], t[4], t[3], t[2]>>,
     <<t[3], t[4], t[1], t[2]>>, <<t[4], t[3], t[2], t[1]>>,
     <<t[2], t[3], t[4], t[1]>>, <<t[4], t[1], t[2], t[3]>>}

\* C9: after a call the array holds value at the eight images of the index
\* tuple and every other element is as before; a call with any of the eight
\* images and the same value gives the same array; starting from a
\* symmetric array, the array is symmetric after every sequence of calls:
\* obj[a,b,c,d] = obj[b,a,d,c] = obj[c,b,a,d] = obj[a,d,c,b].
C9_Symmetry ==
    /\ [](\A t \in DOMAIN four :
            /\ four[t] = four[<<t[2], t[1], t[4], t[3]>>]
            /\ four[t] = four[<<t[3], t[2], t[1], t[4]>>]
            /\ four[t] = four[<<t[1], t[4], t[3], t[2]>>])
    /\ [][fourRet'.op = "set" /\ nCalls' = nCalls + 1 =>
            LET images == Images(fourRet'.args) IN
            /\ \A t \in images : four'[t] = fourRet'.value
            /\ \A t \in (DOMAIN four) \ images : four'[t] = four[t]
            /\ DOMAIN four' = DOMAIN four
            /\ \A t \in images :
                  set_four_index_element(four, t[1], t[2], t[3], t[4], fourRet'.value)
                      = four']_vars

\* A second call wrote eight different elements of an array that the first
\* call had left with the eight-fold symmetry only: it still holds the first
\* call's value at an element whose image under the exchange of the first
\* two indices holds another value.
C9_Witness ==
    /\ nCalls = 2 /\ fourRet.op = "set"
    /\ Cardinality(Images(fourRet.args)) = 8
    /\ \A t \in Images(fourRet.args) : four[t] = fourRet.value
    /\ \E t \in DOMAIN four :
          four[t] = -1 /\ four[<<t[2], t[1], t[3], t[4]>>] \notin {-1, fourRet.value}

====
